---- MODULE Spec2Model ----
(***************************************************************************)
(* State-machine model of the OCR page component src/src/pages/Index.tsx.  *)
(*                                                                         *)
(* The component's React state (file, previewUrl, extractedText,           *)
(* isProcessing, language, progress) is the model's state.  Every event    *)
(* handler is one action.  The asynchronous Tesseract.recognize call is    *)
(* split where the code suspends: extractText runs up to the await, the    *)
(* engine then emits logger events and finally resolves or rejects, and    *)
(* the settle actions run the rest of the handler (try / catch / finally). *)
(*                                                                         *)
(* Strings are sequences of one-character strings, '' is <<>>.             *)
(* Object URLs are numbered 1, 2, ...; previewUrl = 0 stands for ''.       *)
(***************************************************************************)
EXTENDS Integers, Sequences, FiniteSets, TLC

\* ---------------------------------------------------------------- bounds
MaxLen == 1
MaxUrls == 2
MaxCopies == 1
ProgressDen == 3

\* ------------------------------------------------------ program constants
MaxFileSize == 10 * 1024 * 1024

validTypes == {"image/jpeg", "image/jpg", "image/png", "application/pdf"}

languages == << "eng", "hin", "spa", "fra", "deu", "ara", "chi_sim", "jpn" >>

RecognizingText == "recognizing text"

ToastInvalidType == "Invalid file type"
ToastTooLarge == "File too large"
ToastUploaded == "File uploaded successfully"
ToastExtracted == "Text extracted successfully!"
ToastExtractionFailed == "Extraction failed"
ToastCopied == "Text copied!"
ToastCopyFailed == "Copy failed"
ToastDownload == "Download started"

\* ------------------------------------------------------------ input sets
Chars == {"a", " "}

RECURSIVE SeqsUpTo(_)
SeqsUpTo(n) ==
  IF n = 0 THEN {<<>>}
  ELSE LET shorter == SeqsUpTo(n - 1)
       IN  shorter \cup {Append(s, c) : s \in {t \in shorter : Len(t) = n - 1}, c \in Chars}

Texts == SeqsUpTo(MaxLen)

FileTypes == validTypes \cup {"image/gif"}
FileSizes == {MaxFileSize - 1, MaxFileSize, MaxFileSize + 1}
FileNames == {"scan"}
Files == [name : FileNames, type : FileTypes, size : FileSizes]

NoFile == [name |-> "", type |-> "null", size |-> 0]
NoUrl == 0

\* the languages the user picks among: the first two of the list
LangInputs == {languages[1], languages[2]}

\* the values Date.now() takes
Nows == {1, 2}

EngineStatuses == {"loading tesseract core", RecognizingText}
Fractions == 0..ProgressDen

\* ---------------------------------------------------------------- state
VARIABLES
  file,           \* useState<File | null>(null)
  previewUrl,     \* useState<string>('')
  extractedText,  \* useState('')
  isProcessing,   \* useState(false)
  language,       \* useState('eng')
  progress,       \* useState(0)
  objectUrls,     \* browser store: object URLs created and not revoked
  urlCount,       \* number of object URLs created so far
  jobs,           \* Tesseract.recognize calls started and not yet settled
  toasts,         \* toast() calls made by the step just taken
  copying,        \* navigator.clipboard.writeText calls not yet settled
  effects,        \* calls into the platform made by the step just taken
  hTextBefore,    \* history: extractedText when the handler that ran last was
                  \* invoked; an extractText invocation lasts until it settles
  hWriter,        \* history: which code wrote extractedText last
  everSucceeded,  \* history: some recognition has resolved successfully
  hCandidate,     \* history: the file handed to handleFile by the step just
                  \* taken, NoFile after any other step
  hExport         \* history: the export handler the step just taken invoked

vars == << file, previewUrl, extractedText, isProcessing, language, progress,
           objectUrls, urlCount, jobs, toasts, copying, effects,
           hTextBefore, hWriter, everSucceeded, hCandidate, hExport >>

Init ==
  /\ file = NoFile
  /\ previewUrl = NoUrl
  /\ extractedText = <<>>
  /\ isProcessing = FALSE
  /\ language = "eng"
  /\ progress = 0
  /\ objectUrls = {}
  /\ urlCount = 0
  /\ jobs = <<>>
  /\ toasts = <<>>
  /\ hTextBefore = <<>>
  /\ hWriter = "initial"
  /\ everSucceeded = FALSE
  /\ copying = 0
  /\ effects = <<>>
  /\ hCandidate = NoFile
  /\ hExport = "none"

\* ------------------------------------------------------------- helpers
\* variant: every image type passes the type check
IsValidType_AnyImage(type) == type \in validTypes \cup {"image/gif"}

\* validTypes.includes(selectedFile.type)
IsValidType(type) == type \in validTypes

\* variant: the limit itself is rejected (>= instead of >)
IsTooLarge_Inclusive(size) == size >= MaxFileSize

\* selectedFile.size > 10 * 1024 * 1024
IsTooLarge(size) == size > MaxFileSize

\* variant: acceptance forgets setExtractedText('')
TextAfterAccept_Keep(previous) == previous

\* the text buffer after a file has been accepted: setExtractedText('')
TextAfterAccept(previous) == <<>>

\* variant: the buffer shows a placeholder while the engine runs
TextAfterStart_Placeholder(previous) == << "a" >>

\* the text buffer once extractText has run up to the await: setExtractedText('')
TextAfterStart(previous) == <<>>

\* Math.round(m.progress * 100), m.progress = fraction / ProgressDen;
\* Math.round rounds halves up
MathRoundPercent(fraction) == (2 * 100 * fraction + ProgressDen) \div (2 * ProgressDen)

\* variant: the logger publishes the progress of every phase
logger_AnyPhase(m, current) == MathRoundPercent(m.progress)

\* the logger callback: only 'recognizing text' events publish progress
logger(m, current) ==
  IF m.status = RecognizingText THEN MathRoundPercent(m.progress) ELSE current

IsSpace(c) == c \in {" ", "\n"}

RECURSIVE TrimStart(_)
TrimStart(t) == IF t # <<>> /\ IsSpace(Head(t)) THEN TrimStart(Tail(t)) ELSE t

RECURSIVE TrimEnd(_)
TrimEnd(t) ==
  IF t # <<>> /\ IsSpace(t[Len(t)]) THEN TrimEnd(SubSeq(t, 1, Len(t) - 1)) ELSE t

\* variant: result.data.text.trim()
ResultText_Trimmed(result) == TrimEnd(TrimStart(result.data.text))

\* result.data.text
ResultText(result) == result.data.text

\* variant: the finally block forgets setIsProcessing(false)
ProcessingAfterSettle_Stuck == TRUE

\* isProcessing after the finally block: setIsProcessing(false)
ProcessingAfterSettle == FALSE

\* variant: the finally block forgets setProgress(0)
ProgressAfterSettle_Keep(current) == current

\* progress after the finally block: setProgress(0)
ProgressAfterSettle(current) == 0

\* variant: the button is not disabled while isProcessing
ExtractEnabled_NeverDisabled == previewUrl # NoUrl

\* the Extract Text button is rendered when previewUrl is truthy and is
\* disabled while isProcessing
ExtractEnabled == previewUrl # NoUrl /\ ~isProcessing

\* variant: the Textarea is never disabled
TextareaEnabled_Always == TRUE

\* the Textarea is disabled while isProcessing
TextareaEnabled == ~isProcessing

\* the Preview section: nothing while previewUrl is '', the placeholder
\* 'PDF: {file.name}' for a PDF, the <img src={previewUrl}> otherwise
Preview ==
  IF previewUrl = NoUrl THEN [kind |-> "none"]
  ELSE IF file.type = "application/pdf" THEN [kind |-> "placeholder", name |-> file.name]
  ELSE [kind |-> "image", src |-> previewUrl]

\* the index of the first non-whitespace character of t from i on
RECURSIVE SkipSpaces(_, _)
SkipSpaces(t, i) ==
  IF i <= Len(t) /\ IsSpace(t[i]) THEN SkipSpaces(t, i + 1) ELSE i

\* t.split(/\s+/) from position i on, piece being the piece under way: every
\* maximal run of whitespace ends a piece, empty pieces included
RECURSIVE SplitFrom(_, _, _)
SplitFrom(t, i, piece) ==
  IF i > Len(t) THEN << piece >>
  ELSE IF IsSpace(t[i]) THEN << piece >> \o SplitFrom(t, SkipSpaces(t, i), <<>>)
  ELSE SplitFrom(t, i + 1, Append(piece, t[i]))

\* extractedText.split(/\s+/).length
WordCount(t) == Len(SplitFrom(t, 1, <<>>))

\* extractedText.length
CharCount(t) == Len(t)

\* the counts are rendered when extractedText is truthy
CountsShown == extractedText # <<>>

\* the object URLs a preview needs released on supersession: the code never
\* calls URL.revokeObjectURL on a preview URL
RevokedOnAccept(previous) == {}

RemoveAt(s, i) == SubSeq(s, 1, i - 1) \o SubSeq(s, i + 1, Len(s))

\* hTextBefore is taken at the start of a handler, unless an extractText
\* invocation is still awaiting the engine
TextBeforeHandler == IF isProcessing THEN hTextBefore ELSE extractedText

\* a step of the pipeline makes no call into the clipboard or the file-save
\* boundary and leaves the pending clipboard writes alone
PipelineStep ==
  /\ effects' = <<>>
  /\ hExport' = "none"
  /\ UNCHANGED copying

\* ------------------------------------------------------------- actions
\* variant: the size rule is evaluated before the type rule
handleFile_SizeFirst(selectedFile) ==
  /\ hCandidate' = selectedFile
  /\ PipelineStep
  /\ hTextBefore' = TextBeforeHandler
  /\ IF IsTooLarge(selectedFile.size) \/ ~IsValidType(selectedFile.type) THEN
       /\ toasts' = IF IsTooLarge(selectedFile.size) THEN << ToastTooLarge >>
                    ELSE << ToastInvalidType >>
       /\ UNCHANGED << file, previewUrl, extractedText, isProcessing, language,
                       progress, objectUrls, urlCount, jobs, hWriter, everSucceeded >>
     ELSE
       /\ urlCount < MaxUrls
       /\ file' = selectedFile
       /\ urlCount' = urlCount + 1
       /\ objectUrls' = objectUrls \cup {urlCount + 1}
       /\ previewUrl' = urlCount + 1
       /\ extractedText' = <<>>
       /\ toasts' = << ToastUploaded >>
       /\ hWriter' = "handleFile"
       /\ UNCHANGED << isProcessing, language, progress, jobs, everSucceeded >>

\* handleFile, reached from handleDrop and handleFileInput
handleFile(selectedFile) ==
  IF ~IsValidType(selectedFile.type) THEN
    /\ toasts' = << ToastInvalidType >>
    /\ hCandidate' = selectedFile
    /\ PipelineStep
    /\ hTextBefore' = TextBeforeHandler
    /\ UNCHANGED << file, previewUrl, extractedText, isProcessing, language,
                    progress, objectUrls, urlCount, jobs, hWriter, everSucceeded >>
  ELSE IF IsTooLarge(selectedFile.size) THEN
    /\ toasts' = << ToastTooLarge >>
    /\ hCandidate' = selectedFile
    /\ PipelineStep
    /\ hTextBefore' = TextBeforeHandler
    /\ UNCHANGED << file, previewUrl, extractedText, isProcessing, language,
                    progress, objectUrls, urlCount, jobs, hWriter, everSucceeded >>
  ELSE
    /\ urlCount < MaxUrls
    /\ file' = selectedFile
    /\ urlCount' = urlCount + 1
    /\ objectUrls' = (objectUrls \ RevokedOnAccept(previewUrl)) \cup {urlCount + 1}
    /\ previewUrl' = urlCount + 1
    /\ extractedText' = TextAfterAccept(extractedText)
    /\ toasts' = << ToastUploaded >>
    /\ hCandidate' = selectedFile
    /\ PipelineStep
    /\ hTextBefore' = TextBeforeHandler
    /\ hWriter' = "handleFile"
    /\ UNCHANGED << isProcessing, language, progress, jobs, everSucceeded >>

\* Select onValueChange={setLanguage}
setLanguage(code) ==
  /\ language' = code
  /\ toasts' = <<>>
  /\ hCandidate' = NoFile
  /\ PipelineStep
  /\ hTextBefore' = TextBeforeHandler
  /\ UNCHANGED << file, previewUrl, extractedText, isProcessing, progress,
                  objectUrls, urlCount, jobs, hWriter, everSucceeded >>

\* Textarea onChange={(e) => setExtractedText(e.target.value)}
onChange(value) ==
  /\ TextareaEnabled
  /\ extractedText' = value
  /\ toasts' = <<>>
  /\ hCandidate' = NoFile
  /\ PipelineStep
  /\ hTextBefore' = TextBeforeHandler
  /\ hWriter' = "onChange"
  /\ UNCHANGED << file, previewUrl, isProcessing, language, progress,
                  objectUrls, urlCount, jobs, everSucceeded >>

\* variant: the engine is always called with the default language
RecognizeLanguage_Default == "eng"

\* the language argument of Tesseract.recognize(file, language, ...)
RecognizeLanguage == language

\* extractText up to `await Tesseract.recognize(file, language, {logger})`
extractText ==
  /\ ExtractEnabled
  /\ toasts' = <<>>
  /\ hCandidate' = NoFile
  /\ PipelineStep
  /\ hTextBefore' = extractedText
  /\ IF file = NoFile THEN
       UNCHANGED << file, previewUrl, extractedText, isProcessing, language,
                    progress, objectUrls, urlCount, jobs, hWriter, everSucceeded >>
     ELSE
       /\ isProcessing' = TRUE
       /\ progress' = 0
       /\ extractedText' = TextAfterStart(extractedText)
       /\ jobs' = Append(jobs, [file |-> file, language |-> RecognizeLanguage, fraction |-> 0])
       /\ hWriter' = "extractText"
       /\ UNCHANGED << file, previewUrl, language, objectUrls, urlCount, everSucceeded >>

\* the engine reports m = {status, progress} for job i; within the
\* 'recognizing text' phase its fractions do not decrease
EngineLog(i, m) ==
  /\ i \in DOMAIN jobs
  /\ m.status = RecognizingText => m.progress >= jobs[i].fraction
  /\ jobs' = IF m.status = RecognizingText
             THEN [jobs EXCEPT ![i].fraction = m.progress]
             ELSE jobs
  /\ progress' = logger(m, progress)
  /\ toasts' = <<>>
  /\ hCandidate' = NoFile
  /\ PipelineStep
  /\ UNCHANGED << file, previewUrl, extractedText, isProcessing, language,
                  objectUrls, urlCount, hTextBefore, hWriter, everSucceeded >>

\* the engine call of job i resolves: rest of the try block, then finally
EngineResolve(i, result) ==
  /\ i \in DOMAIN jobs
  /\ jobs' = RemoveAt(jobs, i)
  /\ extractedText' = ResultText(result)
  /\ toasts' = << ToastExtracted >>
  /\ hCandidate' = NoFile
  /\ PipelineStep
  /\ isProcessing' = ProcessingAfterSettle
  /\ progress' = ProgressAfterSettle(progress)
  /\ hWriter' = "engine"
  /\ everSucceeded' = TRUE
  /\ UNCHANGED << file, previewUrl, language, objectUrls, urlCount, hTextBefore >>

\* the engine call of job i rejects: catch block, then finally
EngineReject(i) ==
  /\ i \in DOMAIN jobs
  /\ jobs' = RemoveAt(jobs, i)
  /\ toasts' = << ToastExtractionFailed >>
  /\ hCandidate' = NoFile
  /\ PipelineStep
  /\ isProcessing' = ProcessingAfterSettle
  /\ progress' = ProgressAfterSettle(progress)
  /\ UNCHANGED << file, previewUrl, extractedText, language, objectUrls, urlCount,
                  hTextBefore, hWriter, everSucceeded >>

EngineEvents == [status : EngineStatuses, progress : Fractions]
EngineResults == {[data |-> [text |-> t]] : t \in Texts}

SelectFile == \E selectedFile \in Files : handleFile(selectedFile)
SelectLanguage == \E code \in LangInputs : setLanguage(code)
EditText == \E value \in Texts : onChange(value)
Log == \E i \in DOMAIN jobs : \E m \in EngineEvents : EngineLog(i, m)
Resolve == \E i \in DOMAIN jobs : \E result \in EngineResults : EngineResolve(i, result)
Reject == \E i \in DOMAIN jobs : EngineReject(i)

Next ==
  \/ SelectFile
  \/ SelectLanguage
  \/ EditText
  \/ extractText
  \/ Log
  \/ Resolve
  \/ Reject

Spec == Init /\ [][Next]_vars

\* ------------------------------------------------------------ exporter
\* variant: the handlers do not return early on an empty buffer
ExportSkipped_Never == FALSE

\* `if (!extractedText) return;` of copyToClipboard and downloadText
ExportSkipped == extractedText = <<>>

\* the Copy and Download buttons are rendered when extractedText is truthy
ExportShown == extractedText # <<>>

\* variant: the catch block of copyToClipboard empties the buffer
TextAfterCopyFailed_Cleared(previous) == <<>>

\* the text buffer after the catch block of copyToClipboard
TextAfterCopyFailed(previous) == previous

\* `extracted-text-${Date.now()}.txt`
DownloadName(now) == << "extracted-text-", now, ".txt" >>

\* copyToClipboard up to `await navigator.clipboard.writeText(extractedText)`;
\* where the platform has no navigator.clipboard the call throws at once and
\* the catch block runs in the same step
copyToClipboard(clipboardAvailable) ==
  /\ hExport' = "copy"
  /\ hCandidate' = NoFile
  /\ hTextBefore' = TextBeforeHandler
  /\ UNCHANGED << file, previewUrl, isProcessing, language, progress,
                  objectUrls, urlCount, jobs, hWriter, everSucceeded >>
  /\ IF ExportSkipped THEN
       /\ toasts' = <<>>
       /\ effects' = <<>>
       /\ UNCHANGED << extractedText, copying >>
     ELSE IF clipboardAvailable THEN
       /\ copying < MaxCopies
       /\ copying' = copying + 1
       /\ effects' = << [call |-> "clipboard.writeText", text |-> extractedText] >>
       /\ toasts' = <<>>
       /\ UNCHANGED extractedText
     ELSE
       /\ effects' = <<>>
       /\ toasts' = << ToastCopyFailed >>
       /\ extractedText' = TextAfterCopyFailed(extractedText)
       /\ UNCHANGED copying

\* a pending clipboard write resolves: rest of the try block
ClipboardResolve ==
  /\ copying > 0
  /\ copying' = copying - 1
  /\ toasts' = << ToastCopied >>
  /\ effects' = <<>>
  /\ hExport' = "none"
  /\ hCandidate' = NoFile
  /\ UNCHANGED << file, previewUrl, extractedText, isProcessing, language, progress,
                  objectUrls, urlCount, jobs, hTextBefore, hWriter, everSucceeded >>

\* a pending clipboard write rejects: catch block
ClipboardReject ==
  /\ copying > 0
  /\ copying' = copying - 1
  /\ toasts' = << ToastCopyFailed >>
  /\ extractedText' = TextAfterCopyFailed(extractedText)
  /\ effects' = <<>>
  /\ hExport' = "none"
  /\ hCandidate' = NoFile
  /\ UNCHANGED << file, previewUrl, isProcessing, language, progress,
                  objectUrls, urlCount, jobs, hTextBefore, hWriter, everSucceeded >>

\* downloadText: the blob's object URL is created, clicked and revoked
downloadText(now) ==
  /\ hExport' = "download"
  /\ hCandidate' = NoFile
  /\ hTextBefore' = TextBeforeHandler
  /\ UNCHANGED << file, previewUrl, extractedText, isProcessing, language, progress,
                  jobs, copying, hWriter, everSucceeded >>
  /\ IF ExportSkipped THEN
       /\ toasts' = <<>>
       /\ effects' = <<>>
       /\ UNCHANGED << objectUrls, urlCount >>
     ELSE
       /\ urlCount < MaxUrls
       /\ urlCount' = urlCount + 1
       /\ objectUrls' = (objectUrls \cup {urlCount + 1}) \ {urlCount + 1}
       /\ effects' = << [call |-> "URL.createObjectURL", url |-> urlCount + 1,
                          blob |-> [text |-> extractedText, type |-> "text/plain"]],
                        [call |-> "a.click", href |-> urlCount + 1,
                          download |-> DownloadName(now)],
                        [call |-> "URL.revokeObjectURL", url |-> urlCount + 1] >>
       /\ toasts' = << ToastDownload >>

Copy == \E clipboardAvailable \in BOOLEAN : copyToClipboard(clipboardAvailable)
Download == \E now \in Nows : downloadText(now)

\* the exporter next to the handlers that write what it reads and to the
\* recognition job; the logger and the language selection are left out
NextExport ==
  \/ SelectFile
  \/ EditText
  \/ extractText
  \/ Resolve
  \/ Reject
  \/ Copy
  \/ ClipboardResolve
  \/ ClipboardReject
  \/ Download

SpecExport == Init /\ [][NextExport]_vars

\* the engine call of a started job eventually settles
FairSpec == SpecExport /\ WF_vars(Resolve \/ Reject)

TypeOK ==
  /\ file \in Files \cup {NoFile}
  /\ previewUrl \in 0..MaxUrls
  /\ extractedText \in Texts
  /\ isProcessing \in BOOLEAN
  /\ progress \in 0..100
  /\ urlCount \in 0..MaxUrls

\* ---------------------------------------------------------------- claims
\* the pipeline state a rejected candidate must leave alone
PipelineUnchanged ==
  UNCHANGED << file, previewUrl, extractedText, isProcessing, progress,
               objectUrls, urlCount, jobs >>

\* C1: a failed extraction leaves the text buffer as it was immediately
\* before the extraction was triggered, with progress 0, processing cleared
\* and the extraction-failed notification raised.
C1_FailureKeepsText ==
  toasts = << ToastExtractionFailed >> =>
    /\ extractedText = hTextBefore
    /\ progress = 0
    /\ ~isProcessing

\* C2: at most one preview object URL is allocated and not yet released:
\* the previous one is released when a new artifact is accepted.
C2_AtMostOneLivePreview == Cardinality(objectUrls) <= 1

\* the MIME types the claim C3 lists
ClaimedTypes == {"image/jpeg", "image/png", "application/pdf"}

\* C3 as stated: a candidate whose type is not image/jpeg, image/png or
\* application/pdf is rejected as an invalid type and changes no pipeline state.
C3_OutsideClaimedTypesRejected ==
  [][\A f \in Files :
       (hCandidate' = f /\ f.type \notin ClaimedTypes /\ handleFile(f)) =>
         (toasts' = << ToastInvalidType >> /\ PipelineUnchanged)]_vars

\* C3 amended: a candidate whose type is not image/jpeg, image/jpg, image/png
\* or application/pdf is rejected as an invalid type and changes no pipeline
\* state (file, previewUrl, extractedText, isProcessing, progress, object URLs).
C3_UnsupportedTypeRejected ==
  [][\A f \in Files :
       (hCandidate' = f
          /\ f.type \notin {"image/jpeg", "image/jpg", "image/png", "application/pdf"}
          /\ handleFile(f)) =>
         (toasts' = << ToastInvalidType >> /\ PipelineUnchanged)]_vars

\* a candidate of an unsupported type was rejected while an artifact and a
\* text were present
C3_Witness ==
  /\ toasts = << ToastInvalidType >>
  /\ file # NoFile
  /\ extractedText # <<>>
  /\ ~isProcessing
  /\ hTextBefore = extractedText

\* C4 as stated: every candidate larger than 10,485,760 bytes is rejected as
\* too large and changes nothing; a supported candidate of at most
\* 10,485,760 bytes is accepted.
C4_EveryLargeFileTooLarge ==
  [][\A f \in Files :
       (hCandidate' = f /\ (f.size > 10485760 \/ f.type \in validTypes) /\ handleFile(f)) =>
         IF f.size > 10485760
         THEN toasts' = << ToastTooLarge >> /\ PipelineUnchanged
         ELSE toasts' = << ToastUploaded >> /\ file' = f]_vars

\* C4 amended: every candidate of a supported type larger than 10,485,760
\* bytes is rejected as too large and changes nothing (no preview, no job,
\* artifact and text kept); a supported candidate of at most 10,485,760
\* bytes, the limit included, is accepted.
C4_SupportedLargeFileTooLarge ==
  [][\A f \in Files :
       (hCandidate' = f /\ f.type \in validTypes /\ handleFile(f)) =>
         IF f.size > 10485760
         THEN toasts' = << ToastTooLarge >> /\ PipelineUnchanged
         ELSE toasts' = << ToastUploaded >> /\ file' = f]_vars

\* a too-large candidate was rejected while an artifact of exactly the limit
\* and a text were present
C4_Witness ==
  /\ toasts = << ToastTooLarge >>
  /\ file # NoFile
  /\ file.size = 10485760
  /\ extractedText # <<>>
  /\ hTextBefore = extractedText

\* C5: whenever handleFile accepts a candidate the text buffer is empty
\* right after and the candidate is the current artifact.
C5_AcceptClearsText ==
  [][\A f \in Files :
       (hCandidate' = f /\ handleFile(f) /\ toasts' = << ToastUploaded >>) =>
         (extractedText' = <<>> /\ file' = f)]_vars

\* a second artifact was accepted while the buffer held a text
C5_Witness ==
  /\ toasts = << ToastUploaded >>
  /\ ~isProcessing
  /\ hTextBefore # <<>>
  /\ extractedText = <<>>
  /\ urlCount >= 2

\* C6: when the engine call resolves, the text buffer is exactly the text
\* the engine returned, whitespace and the empty string included.
C6_SuccessTextVerbatim ==
  [][\A i \in DOMAIN jobs : \A result \in EngineResults :
       EngineResolve(i, result) => extractedText' = result.data.text]_vars

\* a job resolved with a text that starts with whitespace
C6_Witness ==
  /\ toasts = << ToastExtracted >>
  /\ extractedText # <<>>
  /\ extractedText[1] = " "

\* C7: at most one engine call is started and not yet settled.
C7_AtMostOneJob == Len(jobs) <= 1

\* a job is running, the trigger is unavailable, and another file has been
\* selected meanwhile
C7_Witness ==
  /\ Len(jobs) = 1
  /\ isProcessing
  /\ ~ExtractEnabled
  /\ file # jobs[1].file

\* C8: when no job is running progress is 0 and processing is cleared.
C8_IdleProgressZero == jobs = <<>> => (progress = 0 /\ ~isProcessing)

\* a job has just settled with a failure
C8_Witness ==
  /\ toasts = << ToastExtractionFailed >>
  /\ jobs = <<>>
  /\ progress = 0

\* C9: progress stays within 0..100, never decreases between a job's start
\* and its settlement, and is not changed by events of other phases.
C9_ProgressMonotone ==
  /\ [](progress \in 0..100)
  /\ [][(isProcessing /\ isProcessing') => progress' >= progress]_vars
  /\ [][progress' # progress =>
          \A i \in DOMAIN jobs : \A m \in EngineEvents :
            ~(m.status # RecognizingText /\ EngineLog(i, m))]_vars

\* a running job has published a progress strictly between 0 and 100
C9_Witness == isProcessing /\ progress > 0 /\ progress < 100

\* C10 as stated: while no recognition has succeeded the buffer is empty.
C10_EmptyUntilSuccess == ~everSucceeded => extractedText = <<>>

\* C10 amended: while no recognition has succeeded, the buffer is empty
\* unless its content was typed by the user.
C10_EmptyOrTypedUntilSuccess ==
  ~everSucceeded => (extractedText = <<>> \/ hWriter = "onChange")

\* without any success so far, a text typed by the user was cleared by an
\* extraction that then failed
C10_Witness ==
  /\ ~everSucceeded
  /\ toasts = << ToastExtractionFailed >>
  /\ hTextBefore # <<>>
  /\ extractedText = <<>>

\* C13: a PDF artifact has no object URL allocated for it; its preview is
\* the placeholder carrying only the display name.
C13_PdfAllocatesNoUrl ==
  file.type = "application/pdf" =>
    /\ Preview = [kind |-> "placeholder", name |-> file.name]
    /\ previewUrl \notin objectUrls

\* the whitespace-delimited non-empty tokens of t: the positions where a
\* non-whitespace character starts the text or follows whitespace
TokenCount(t) ==
  Cardinality({i \in 1..Len(t) : ~IsSpace(t[i]) /\ (i = 1 \/ IsSpace(t[i - 1]))})

\* C16: for a non-empty buffer the displayed word count is the number of
\* whitespace-delimited non-empty tokens and the displayed character count
\* is the raw length.
C16_CountsMatchTokens ==
  CountsShown =>
    /\ WordCount(extractedText) = TokenCount(extractedText)
    /\ CharCount(extractedText) = Len(extractedText)

\* C18: when a job's success writes the buffer, the job was started on the
\* artifact that is current at that moment.
C18_ResultBelongsToCurrentArtifact ==
  [][\A i \in DOMAIN jobs : \A result \in EngineResults :
       EngineResolve(i, result) => jobs[i].file = file]_vars

\* C19: while a job is running the buffer was last written by the clear at
\* the job's start or by the clear of an acceptance, never by a user edit.
C19_NoEditWhileProcessing ==
  isProcessing => (hWriter \in {"extractText", "handleFile"} /\ extractedText = <<>>)

\* a job is running and a new artifact was accepted meanwhile
C19_Witness ==
  /\ isProcessing
  /\ hWriter = "handleFile"
  /\ toasts = << ToastUploaded >>

LanguageCodes == {languages[k] : k \in DOMAIN languages}

\* C14: the language is eng initially and always one of the fixed codes; an
\* engine call gets the language selected when extractText was triggered, and
\* a later change of language leaves the running job, the progress, the
\* processing status and the buffer as they are.
C14_LanguageAtTrigger ==
  /\ language = "eng"
  /\ [](language \in LanguageCodes)
  /\ [][Len(jobs') = Len(jobs) + 1 => jobs'[Len(jobs')].language = language]_vars
  /\ [][language' # language =>
          UNCHANGED << jobs, progress, isProcessing, extractedText, file >>]_vars

\* a job is running with a language other than the one now selected
C14_Witness ==
  /\ Len(jobs) = 1
  /\ isProcessing
  /\ jobs[1].language # language
  /\ jobs[1].language # "eng"

\* C15: provided the engine call settles, isProcessing never stays true for
\* ever, and whenever it is false the extract trigger is available for the
\* current artifact.
C15_ProcessingEnds ==
  /\ []<>(~isProcessing)
  /\ [](~isProcessing /\ file # NoFile => ExtractEnabled)

\* an extraction has failed and the trigger is available again for the
\* current artifact
C15_Witness ==
  /\ toasts = << ToastExtractionFailed >>
  /\ ~isProcessing
  /\ ExtractEnabled
  /\ file # NoFile

\* C17: a candidate with an unsupported type and a size above the limit is
\* rejected with the invalid-type notification, and every rejected candidate
\* raises exactly one notification.
C17_TypeBeforeSize ==
  [][hCandidate' # NoFile =>
       /\ (hCandidate'.type \notin validTypes /\ hCandidate'.size > 10485760)
            => toasts' = << ToastInvalidType >>
       /\ (hCandidate'.type \notin validTypes \/ hCandidate'.size > 10485760)
            => (Len(toasts') = 1 /\ toasts'[1] \in {ToastInvalidType, ToastTooLarge})]_vars

\* a candidate of an unsupported type above the limit was rejected
C17_Witness ==
  /\ hCandidate # NoFile
  /\ hCandidate.type \notin validTypes
  /\ hCandidate.size > 10485760
  /\ toasts = << ToastInvalidType >>

\* C11: copyToClipboard and downloadText invoked on an empty buffer call
\* nothing (no clipboard write, no blob URL, no click), raise no notification
\* and change no state.
C11_ExportNoOpWhenEmpty ==
  [][(extractedText = <<>> /\ hExport' # "none") =>
       /\ effects' = <<>>
       /\ toasts' = <<>>
       /\ PipelineUnchanged
       /\ UNCHANGED << language, copying >>]_vars

\* an export handler has just been invoked on an empty buffer, an artifact
\* being present
C11_Witness ==
  /\ hExport # "none"
  /\ hTextBefore = <<>>
  /\ extractedText = <<>>
  /\ effects = <<>>
  /\ file # NoFile

\* C12: a denied clipboard write raises the copy-failed notification and
\* leaves the buffer, the artifact, the preview, the job status and the
\* progress as they are; every settled clipboard write ends in a notification.
C12_CopyFailureKeepsState ==
  [][/\ toasts' = << ToastCopyFailed >> =>
          (PipelineUnchanged /\ UNCHANGED language)
     /\ (copying' < copying \/ (hExport' = "copy" /\ extractedText # <<>> /\ copying' = copying))
          => toasts' \in {<< ToastCopied >>, << ToastCopyFailed >>}]_vars

\* a clipboard write was denied while the buffer held a text
C12_Witness ==
  /\ toasts = << ToastCopyFailed >>
  /\ extractedText # <<>>
  /\ file # NoFile

====
